---- MODULE Spec2Model ----
(***************************************************************************)
(* Model of my_shop/static/store.js: a shopping cart and a wishlist kept   *)
(* as JSON text in the browser's localStorage, and the cart badge of the   *)
(* page.  Every function of store.js is an operator over the storage and   *)
(* the badge elements; every call of a function is one atomic action       *)
(* (a page runs its JavaScript to completion).                             *)
(***************************************************************************)
EXTENDS Integers, Sequences, FiniteSets, TLC

VARIABLES
    localStorage,   \* key -> null or the stored string
    badges,         \* the [data-cart-badge] elements of the page
    loaded,         \* TRUE once DOMContentLoaded has fired
    last,           \* the last call: function, arguments, returned value
    pre,            \* localStorage and badges as they were before the last call
    pair,           \* the toggleWishlist call right before the last one, if any
    toggled,        \* per identifier, the number of toggleWishlist calls modulo 2
    tabs,           \* two tabs on the same store: where each is in its call
    hist            \* the tabs' last step, and the writes of overlapping calls

vars == <<localStorage, badges, loaded, last, pre, pair, toggled, tabs, hist>>

(***************************************************************************)
(* Bounds of the model.                                                    *)
(***************************************************************************)
MaxId == 2          \* identifiers of the products put in the cart are 1..MaxId
MaxWishId == 2      \* identifiers of the products toggled in the wishlist are 1..MaxWishId
MaxQty == 3         \* quantities stay within -1..MaxQty
MaxItems == 2       \* a cart holds at most MaxItems items
NumBadges == 1      \* number of [data-cart-badge] elements in the page
MaxTabId == 1       \* identifiers used by the calls of the two tabs are 1..MaxTabId
MaxTabQty == 2      \* quantities written by the two tabs stay within 1..MaxTabQty

CART_KEY == "myshop_cart"
WISHLIST_KEY == "myshop_wishlist"

Ids == 1..MaxId
WishIds == 1..MaxWishId
QtyRange == (-1)..MaxQty
BadgeIds == 1..NumBadges

\* The catalogue the callers take their products from: id 1 costs 10, the
\* others cost 5.
PriceOf(id) == IF id = 1 THEN 10 ELSE 5
Product(i) == [id |-> i, price |-> PriceOf(i)]
Products == {Product(i) : i \in Ids}
WishProducts == {Product(i) : i \in WishIds}

(***************************************************************************)
(* JSON.  A JavaScript object is a record; an array is a sequence.  The    *)
(* text of an array of objects is the sequence of its objects' texts, and  *)
(* the text of an object is the list of its <<key, value>> pairs in key    *)
(* order.                                                                  *)
(***************************************************************************)
KeyOrder == <<"id", "price", "qty">>

RECURSIVE stringifyKeys(_, _)
stringifyKeys(obj, k) ==
    IF k > Len(KeyOrder) THEN <<>>
    ELSE (IF KeyOrder[k] \in DOMAIN obj
             THEN << <<KeyOrder[k], obj[KeyOrder[k]]>> >>
             ELSE <<>>) \o stringifyKeys(obj, k + 1)

stringifyObject(obj) == stringifyKeys(obj, 1)

JSONstringify(arr) == [i \in 1..Len(arr) |-> stringifyObject(arr[i])]

\* the value of the last pair with key k, as JSON.parse keeps the last duplicate
parseValue(pairs, k) ==
    LET js == {j \in 1..Len(pairs) : pairs[j][1] = k}
        j == CHOOSE m \in js : \A n \in js : n <= m
    IN pairs[j][2]

parseObject(pairs) ==
    [k \in {pairs[j][1] : j \in 1..Len(pairs)} |-> parseValue(pairs, k)]

JSONparse(text) == [i \in 1..Len(text) |-> parseObject(text[i])]

\* a stored string that is not JSON text; JSON.parse throws a SyntaxError on it
Malformed == << << <<"{", 0>> >> >>
JSONparseThrows(text) == text = Malformed

(***************************************************************************)
(* localStorage                                                            *)
(***************************************************************************)
Null == [kind |-> "null"]
Str(text) == [kind |-> "string", text |-> text]

getItem(ls, key) == ls[key]
setItem(ls, key, text) == [ls EXCEPT ![key] = Str(text)]

\* value || '[]' : null is falsy, '[]' is the text of the empty array
orEmptyArray(value) == IF value = Null THEN <<>> ELSE value.text

(***************************************************************************)
(* Array helpers                                                           *)
(***************************************************************************)
\* Array.prototype.find on "id": index of the first match, 0 for undefined
findById(arr, id) ==
    LET ms == {i \in 1..Len(arr) : arr[i].id = id}
    IN IF ms = {} THEN 0 ELSE CHOOSE i \in ms : \A j \in ms : i <= j

\* Array.prototype.filter((item) => item.id !== id)
RECURSIVE filterNotId(_, _)
filterNotId(arr, id) ==
    IF arr = <<>> THEN <<>>
    ELSE (IF Head(arr).id # id THEN <<Head(arr)>> ELSE <<>>)
         \o filterNotId(Tail(arr), id)

\* Array.prototype.some((item) => item.id === id)
someId(arr, id) == \E i \in 1..Len(arr) : arr[i].id = id

\* { ...product, qty }
spreadWithQty(product, qty) ==
    [k \in DOMAIN product \cup {"qty"} |-> IF k = "qty" THEN qty ELSE product[k]]

\* String(n) for an integer n, as a sequence of characters
Digit(d) == <<"0", "1", "2", "3", "4", "5", "6", "7", "8", "9">>[d + 1]

RECURSIVE natToString(_)
natToString(n) ==
    IF n < 10 THEN <<Digit(n)>> ELSE natToString(n \div 10) \o <<Digit(n % 10)>>

numberToString(n) == IF n < 0 THEN <<"-">> \o natToString(-n) ELSE natToString(n)

(***************************************************************************)
(* store.js                                                                *)
(***************************************************************************)
getCart(ls) == JSONparse(orEmptyArray(getItem(ls, CART_KEY)))

\* getCart() throws instead of returning
getCartThrows(ls) == JSONparseThrows(orEmptyArray(getItem(ls, CART_KEY)))

RECURSIVE reduceQty(_, _)
reduceQty(arr, sum) ==
    IF arr = <<>> THEN sum ELSE reduceQty(Tail(arr), sum + Head(arr).qty)

\* cartTotalQty that counts the items
cartTotalQty_count(ls) == Len(getCart(ls))

cartTotalQty(ls) == reduceQty(getCart(ls), 0)

RECURSIVE reducePrice(_, _)
reducePrice(arr, sum) ==
    IF arr = <<>> THEN sum
    ELSE reducePrice(Tail(arr), sum + Head(arr).price * Head(arr).qty)

RECURSIVE reducePriceOnly(_, _)
reducePriceOnly(arr, sum) ==
    IF arr = <<>> THEN sum ELSE reducePriceOnly(Tail(arr), sum + Head(arr).price)

\* cartTotalPrice that leaves the quantity out
cartTotalPrice_noQty(ls) == reducePriceOnly(getCart(ls), 0)

cartTotalPrice(ls) == reducePrice(getCart(ls), 0)

\* the badges after updateCartBadge() ran against storage ls
updateCartBadge(ls, bs) ==
    LET count == cartTotalQty(ls)
    IN [b \in DOMAIN bs |->
          [textContent |-> numberToString(count), dNone |-> (count = 0)]]

\* a world is the storage together with the badges, as a call leaves them:
\* World when the call returned, Throw when an error left it uncaught
World(ls, bs) == [ls |-> ls, badges |-> bs, thrown |-> FALSE]
Throw(ls, bs) == [ls |-> ls, badges |-> bs, thrown |-> TRUE]

\* saveCart that does not refresh the badge
saveCart_norefresh(ls, bs, items) ==
    World(setItem(ls, CART_KEY, JSONstringify(items)), bs)

saveCart(ls, bs, items) ==
    LET ls2 == setItem(ls, CART_KEY, JSONstringify(items))
    IN IF getCartThrows(ls2) THEN Throw(ls2, bs)
       ELSE World(ls2, updateCartBadge(ls2, bs))

\* function addToCart(product, qty = 1): args holds the arguments after product
\* a default quantity of 0 instead of 1
defaultQty_zero(args) == IF args = <<>> THEN 0 ELSE args[1]

defaultQty(args) == IF args = <<>> THEN 1 ELSE args[1]

\* addToCart that never looks for the identifier and always pushes
addToCart_push(ls, bs, product, qty) ==
    saveCart(ls, bs, Append(getCart(ls), spreadWithQty(product, qty)))

\* addToCart that assigns the quantity of a found item instead of adding to it
addToCart_assign(ls, bs, product, qty) ==
    LET cart == getCart(ls)
        found == findById(cart, product.id)
        cart2 == IF found # 0
                    THEN [cart EXCEPT ![found].qty = qty]
                    ELSE Append(cart, spreadWithQty(product, qty))
    IN saveCart(ls, bs, cart2)

addToCart(ls, bs, product, qty) ==
    LET cart == getCart(ls)
        found == findById(cart, product.id)
        cart2 == IF found # 0
                    THEN [cart EXCEPT ![found].qty = @ + qty]
                    ELSE Append(cart, spreadWithQty(product, qty))
    IN IF getCartThrows(ls) THEN Throw(ls, bs)
       ELSE saveCart(ls, bs, cart2)

RECURSIVE filterId(_, _)
filterId(arr, id) ==
    IF arr = <<>> THEN <<>>
    ELSE (IF Head(arr).id = id THEN <<Head(arr)>> ELSE <<>>)
         \o filterId(Tail(arr), id)

\* removeFromCart with the filter inverted: keeps the matching item only
removeFromCart_inverted(ls, bs, productId) ==
    saveCart(ls, bs, filterId(getCart(ls), productId))

\* removeFromCart that catches the error of the read and saves an empty cart
removeFromCart_reset(ls, bs, productId) ==
    IF getCartThrows(ls) THEN saveCart(ls, bs, <<>>)
    ELSE saveCart(ls, bs, filterNotId(getCart(ls), productId))

removeFromCart(ls, bs, productId) ==
    IF getCartThrows(ls) THEN Throw(ls, bs)
    ELSE saveCart(ls, bs, filterNotId(getCart(ls), productId))

\* updateQty that takes the item out and pushes it back with the new quantity
updateQty_reappend(ls, bs, productId, nextQty) ==
    LET cart == getCart(ls)
        item == findById(cart, productId)
    IN IF item = 0 THEN World(ls, bs)
       ELSE IF nextQty <= 0 THEN removeFromCart(ls, bs, productId)
       ELSE saveCart(ls, bs, Append(filterNotId(cart, productId),
                                    [cart[item] EXCEPT !.qty = nextQty]))

\* updateQty that adds nextQty to the quantity instead of setting it
updateQty_add(ls, bs, productId, nextQty) ==
    LET cart == getCart(ls)
        item == findById(cart, productId)
    IN IF item = 0 THEN World(ls, bs)
       ELSE IF nextQty <= 0 THEN removeFromCart(ls, bs, productId)
       ELSE saveCart(ls, bs, [cart EXCEPT ![item].qty = @ + nextQty])

\* updateQty that removes on nextQty < 0 only
updateQty_strict(ls, bs, productId, nextQty) ==
    LET cart == getCart(ls)
        item == findById(cart, productId)
    IN IF item = 0 THEN World(ls, bs)
       ELSE IF nextQty < 0 THEN removeFromCart(ls, bs, productId)
       ELSE saveCart(ls, bs, [cart EXCEPT ![item].qty = nextQty])

\* updateQty without the early return for an absent item
updateQty_noguard(ls, bs, productId, nextQty) ==
    LET cart == getCart(ls)
        item == findById(cart, productId)
    IN IF nextQty <= 0 THEN removeFromCart(ls, bs, productId)
       ELSE saveCart(ls, bs, IF item = 0 THEN cart
                                         ELSE [cart EXCEPT ![item].qty = nextQty])

updateQty(ls, bs, productId, nextQty) ==
    LET cart == getCart(ls)
        item == findById(cart, productId)
    IN IF getCartThrows(ls) THEN Throw(ls, bs)
       ELSE IF item = 0 THEN World(ls, bs)
       ELSE IF nextQty <= 0 THEN removeFromCart(ls, bs, productId)
       ELSE saveCart(ls, bs, [cart EXCEPT ![item].qty = nextQty])

getWishlist(ls) == JSONparse(orEmptyArray(getItem(ls, WISHLIST_KEY)))

\* toggleWishlist that returns found instead of !found
toggleWishlist_found(ls, product) ==
    LET wishlist == getWishlist(ls)
        found == findById(wishlist, product.id)
        updated == IF found # 0
                      THEN filterNotId(wishlist, product.id)
                      ELSE wishlist \o <<product>>
    IN [ls |-> setItem(ls, WISHLIST_KEY, JSONstringify(updated)),
        ret |-> (found # 0)]

\* toggleWishlist that writes the wishlist back unfiltered when found
toggleWishlist_keep(ls, product) ==
    LET wishlist == getWishlist(ls)
        found == findById(wishlist, product.id)
        updated == IF found # 0 THEN wishlist ELSE wishlist \o <<product>>
    IN [ls |-> setItem(ls, WISHLIST_KEY, JSONstringify(updated)),
        ret |-> (found = 0)]

\* toggleWishlist that compares the entries with the product, not its id,
\* and so never finds it
toggleWishlist_append(ls, product) ==
    [ls |-> setItem(ls, WISHLIST_KEY, JSONstringify(getWishlist(ls) \o <<product>>)),
     ret |-> TRUE]

\* toggleWishlist that writes under the cart's key
toggleWishlist_cartKey(ls, product) ==
    LET wishlist == getWishlist(ls)
        found == findById(wishlist, product.id)
        updated == IF found # 0
                      THEN filterNotId(wishlist, product.id)
                      ELSE wishlist \o <<product>>
    IN [ls |-> setItem(ls, CART_KEY, JSONstringify(updated)),
        ret |-> (found = 0)]

\* the storage after toggleWishlist(product) and the value it returns
toggleWishlist(ls, product) ==
    LET wishlist == getWishlist(ls)
        found == findById(wishlist, product.id)
        updated == IF found # 0
                      THEN filterNotId(wishlist, product.id)
                      ELSE wishlist \o <<product>>
    IN [ls |-> setItem(ls, WISHLIST_KEY, JSONstringify(updated)),
        ret |-> (found = 0)]

\* isWishlist with the comparison inverted
isWishlist_neq(ls, productId) ==
    \E i \in 1..Len(getWishlist(ls)) : getWishlist(ls)[i].id # productId

isWishlist(ls, productId) == someId(getWishlist(ls), productId)

(***************************************************************************)
(* The page: calls of the functions, one action per call.                  *)
(***************************************************************************)
Call(op, id, args, ret, retb) ==
    [op |-> op, id |-> id, args |-> args, ret |-> ret, retb |-> retb,
     thrown |-> FALSE]

\* the call ended with an uncaught error instead of returning
Threw(op, id, args) ==
    [op |-> op, id |-> id, args |-> args, ret |-> 0, retb |-> FALSE,
     thrown |-> TRUE]

\* a call of a function that writes the cart, ended as world w tells
CartCall(w, op, id, args) ==
    IF w.thrown THEN Threw(op, id, args) ELSE Call(op, id, args, 0, FALSE)

NoCall == Call("none", 0, <<>>, 0, FALSE)
NoPair == [valid |-> FALSE, first |-> NoCall, before |-> Null]

(***************************************************************************)
(* Two tabs on the same store.  A tab runs a call to completion, but the   *)
(* other tab may run between two of its accesses to localStorage: a call   *)
(* is the read of getCart(), the write of setItem() and the read of the    *)
(* badge refresh, one step each.                                           *)
(***************************************************************************)
Tabs == {"A", "B"}
OtherTab(t) == CHOOSE u \in Tabs : u # t

TabCall(op, id, args) == [op |-> op, id |-> id, args |-> args]
NoTabCall == TabCall("none", 0, <<>>)

\* the calls the tabs make: addToCart(p), updateQty(id, 0), which goes on as
\* removeFromCart(id), and updateQty(id, MaxTabQty)
TabIds == 1..MaxTabId
TabCalls ==
    {TabCall("addToCart", id, <<>>) : id \in TabIds}
    \cup {TabCall("updateQty", id, <<q>>) : id \in TabIds, q \in {0, MaxTabQty}}

\* a loaded tab on the empty store: DOMContentLoaded has set the badges
LoadedBadges == [b \in BadgeIds |-> [textContent |-> <<"0">>, dNone |-> TRUE]]

IdleTab(bs) == [pc |-> "idle", call |-> NoTabCall, snap |-> Null, badges |-> bs]
InitialTabs == [t \in Tabs |-> IdleTab(LoadedBadges)]

NoWrite == [call |-> NoTabCall, snap |-> Null]
NoHist ==
    [overlap |-> FALSE, writers |-> <<>>, first |-> NoTabCall, write |-> NoWrite]

\* the storage as a tab that read snap under the cart key sees it
withCart(ls, snap) == [ls EXCEPT ![CART_KEY] = snap]

\* what the call makes of the cart it read
tabCompute(ls, bs, call) ==
    CASE call.op = "addToCart" ->
           addToCart(ls, bs, Product(call.id), defaultQty(call.args))
      [] call.op = "removeFromCart" -> removeFromCart(ls, bs, call.id)
      [] call.op = "updateQty" -> updateQty(ls, bs, call.id, call.args[1])

\* setItem of a tab that computes from the current storage, as if its read
\* and its write were one step
tabWrite_fresh(ls, snap, call) ==
    [ls EXCEPT ![CART_KEY] = getItem(tabCompute(ls, <<>>, call).ls, CART_KEY)]

\* the storage after the setItem of a tab that read snap: the whole cart
\* computed from snap replaces what is stored
tabWrite(ls, snap, call) ==
    [ls EXCEPT ![CART_KEY] =
        getItem(tabCompute(withCart(ls, snap), <<>>, call).ls, CART_KEY)]

\* a refresh that reaches the badges of every tab
tabRefresh_all(ts, t, ls) ==
    [u \in DOMAIN ts |-> [ts[u] EXCEPT !.badges = updateCartBadge(ls, @)]]

\* the badges of every tab after tab t refreshed its own from storage ls
tabRefresh(ts, t, ls) ==
    [ts EXCEPT ![t].badges = updateCartBadge(ls, @)]

\* updateQty found no item in the cart it read: it returns without writing
returnsEarly(snap, call) ==
    /\ call.op = "updateQty"
    /\ findById(JSONparse(orEmptyArray(snap)), call.id) = 0

\* updateQty found the item and nextQty <= 0: it calls removeFromCart, which
\* reads the cart again
delegates(snap, call) ==
    /\ call.op = "updateQty"
    /\ findById(JSONparse(orEmptyArray(snap)), call.id) # 0
    /\ call.args[1] <= 0

\* a badge element as the page's markup has it before any refresh
InitialBadge == [textContent : {<<>>, <<"0">>}, dNone : BOOLEAN]

Init ==
    /\ localStorage = [k \in {CART_KEY, WISHLIST_KEY} |-> Null]
    /\ badges \in [BadgeIds -> InitialBadge]
    /\ loaded = FALSE
    /\ last = NoCall
    /\ pre = World(localStorage, badges)
    /\ pair = NoPair
    /\ toggled = [i \in WishIds |-> 0]
    /\ tabs = InitialTabs
    /\ hist = NoHist

\* the cart of world w stays within the bounds of the model
WithinBounds(w) ==
    \E c \in {getCart(w.ls)} :
        /\ Len(c) <= MaxItems
        /\ \A i \in 1..Len(c) : c[i].qty \in QtyRange

\* bookkeeping shared by the calls that are not toggleWishlist
Record(call) ==
    /\ last' = call
    /\ pre' = World(localStorage, badges)
    /\ pair' = NoPair
    /\ UNCHANGED <<toggled, tabs, hist>>

\* addToCart(product) when args = <<>> and addToCart(product, args[1]) otherwise
AddToCart(product, args) ==
    \E w \in {addToCart(localStorage, badges, product, defaultQty(args))} :
       /\ IF w.thrown THEN TRUE ELSE WithinBounds(w)
       /\ localStorage' = w.ls
       /\ badges' = w.badges
       /\ Record(CartCall(w, "addToCart", product.id, args))
       /\ UNCHANGED loaded

RemoveFromCart(productId) ==
    \E w \in {removeFromCart(localStorage, badges, productId)} :
       /\ localStorage' = w.ls
       /\ badges' = w.badges
       /\ Record(CartCall(w, "removeFromCart", productId, <<>>))
       /\ UNCHANGED loaded

UpdateQty(productId, nextQty) ==
    \E w \in {updateQty(localStorage, badges, productId, nextQty)} :
       /\ localStorage' = w.ls
       /\ badges' = w.badges
       /\ Record(CartCall(w, "updateQty", productId, <<nextQty>>))
       /\ UNCHANGED loaded

CartTotalQty ==
    /\ Record(IF getCartThrows(localStorage)
                 THEN Threw("cartTotalQty", 0, <<>>)
                 ELSE Call("cartTotalQty", 0, <<>>, cartTotalQty(localStorage), FALSE))
    /\ UNCHANGED <<localStorage, badges, loaded>>

CartTotalPrice ==
    /\ Record(IF getCartThrows(localStorage)
                 THEN Threw("cartTotalPrice", 0, <<>>)
                 ELSE Call("cartTotalPrice", 0, <<>>, cartTotalPrice(localStorage), FALSE))
    /\ UNCHANGED <<localStorage, badges, loaded>>

ToggleWishlist(product) ==
    \E r \in {toggleWishlist(localStorage, product)} :
       /\ localStorage' = r.ls
       /\ last' = Call("toggleWishlist", product.id, <<>>, 0, r.ret)
       /\ pre' = World(localStorage, badges)
       /\ pair' = IF last.op = "toggleWishlist"
                     THEN [valid |-> TRUE, first |-> last,
                           before |-> getItem(pre.ls, WISHLIST_KEY)]
                     ELSE NoPair
       /\ toggled' = [toggled EXCEPT ![product.id] = (@ + 1) % 2]
       /\ UNCHANGED <<badges, loaded, tabs, hist>>

IsWishlist(productId) ==
    /\ Record(Call("isWishlist", productId, <<>>, 0, isWishlist(localStorage, productId)))
    /\ UNCHANGED <<localStorage, badges, loaded>>

\* document.addEventListener('DOMContentLoaded', updateCartBadge)
DOMContentLoaded ==
    /\ ~loaded
    /\ loaded' = TRUE
    /\ badges' = IF getCartThrows(localStorage) THEN badges
                  ELSE updateCartBadge(localStorage, badges)
    /\ Record(IF getCartThrows(localStorage)
                 THEN Threw("DOMContentLoaded", 0, <<>>)
                 ELSE Call("DOMContentLoaded", 0, <<>>, 0, FALSE))
    /\ UNCHANGED localStorage

QtyArgs == {<<>>} \cup {<<q>> : q \in QtyRange}

\* the page with every function of store.js
Next ==
    \/ \E p \in Products, a \in QtyArgs : AddToCart(p, a)
    \/ \E id \in Ids : RemoveFromCart(id)
    \/ \E id \in Ids, q \in QtyRange : UpdateQty(id, q)
    \/ CartTotalQty
    \/ CartTotalPrice
    \/ \E p \in WishProducts : ToggleWishlist(p)
    \/ \E id \in WishIds : IsWishlist(id)
    \/ DOMContentLoaded

Spec == Init /\ [][Next]_vars

\* the cart alone: no call touches the wishlist
NextCart ==
    \/ \E p \in Products, a \in QtyArgs : AddToCart(p, a)
    \/ \E id \in Ids : RemoveFromCart(id)
    \/ \E id \in Ids, q \in QtyRange : UpdateQty(id, q)
    \/ CartTotalQty
    \/ CartTotalPrice
    \/ DOMContentLoaded

SpecCart == Init /\ [][NextCart]_vars

\* the wishlist alone
NextWish ==
    \/ \E p \in WishProducts : ToggleWishlist(p)
    \/ \E id \in WishIds : IsWishlist(id)

SpecWish == Init /\ [][NextWish]_vars

\* the page opened on a store whose cart key holds a string that is not
\* JSON, left there by something other than store.js
InitMalformed ==
    /\ localStorage = [k \in {CART_KEY, WISHLIST_KEY} |->
                          IF k = CART_KEY THEN Str(Malformed) ELSE Null]
    /\ badges \in [BadgeIds -> InitialBadge]
    /\ loaded = FALSE
    /\ last = NoCall
    /\ pre = World(localStorage, badges)
    /\ pair = NoPair
    /\ toggled = [i \in WishIds |-> 0]
    /\ tabs = InitialTabs
    /\ hist = NoHist

SpecMalformed == InitMalformed /\ [][Next]_vars

\* the single page does not move while the tabs run
PageUnchanged == UNCHANGED <<badges, loaded, last, pre, pair, toggled>>

\* the two tabs, both loaded on the empty store
InitTabs ==
    /\ localStorage = [k \in {CART_KEY, WISHLIST_KEY} |-> Null]
    /\ badges = LoadedBadges
    /\ loaded = TRUE
    /\ last = NoCall
    /\ pre = World(localStorage, badges)
    /\ pair = NoPair
    /\ toggled = [i \in WishIds |-> 0]
    /\ tabs = InitialTabs
    /\ hist = NoHist

\* the cart of world w stays within the bounds of the tabs
TabWithinBounds(w) ==
    \E c \in {getCart(w.ls)} :
        /\ Len(c) <= MaxItems
        /\ \A i \in 1..Len(c) : c[i].qty \in 1..MaxTabQty

\* tab t starts call c: getCart() reads the storage
TabBegin(t, c) ==
    /\ tabs[t].pc = "idle"
    /\ TabWithinBounds(tabCompute(localStorage, <<>>, c))
    /\ tabs' = [tabs EXCEPT ![t].pc = "read", ![t].call = c,
                            ![t].snap = getItem(localStorage, CART_KEY)]
    /\ hist' = [NoHist EXCEPT !.overlap = (tabs[OtherTab(t)].pc = "read")]
    /\ UNCHANGED localStorage
    /\ PageUnchanged

\* updateQty(id, nextQty <= 0) of tab t calls removeFromCart(id): getCart()
\* reads the storage again
TabDelegate(t) ==
    /\ tabs[t].pc = "read"
    /\ delegates(tabs[t].snap, tabs[t].call)
    /\ tabs' = [tabs EXCEPT ![t].call = TabCall("removeFromCart", @.id, <<>>),
                            ![t].snap = getItem(localStorage, CART_KEY)]
    /\ hist' = [NoHist EXCEPT !.overlap = (tabs[OtherTab(t)].pc = "read")]
    /\ UNCHANGED localStorage
    /\ PageUnchanged

\* updateQty of tab t returns at `if (!item) return;`
TabReturn(t) ==
    /\ tabs[t].pc = "read"
    /\ returnsEarly(tabs[t].snap, tabs[t].call)
    /\ tabs' = [tabs EXCEPT ![t] = IdleTab(@.badges)]
    /\ hist' = NoHist
    /\ UNCHANGED localStorage
    /\ PageUnchanged

\* saveCart of tab t: setItem writes the cart computed from what t read
TabWrite(t) ==
    /\ tabs[t].pc = "read"
    /\ ~returnsEarly(tabs[t].snap, tabs[t].call)
    /\ ~delegates(tabs[t].snap, tabs[t].call)
    /\ localStorage' = tabWrite(localStorage, tabs[t].snap, tabs[t].call)
    /\ tabs' = [tabs EXCEPT ![t].pc = "saved", ![t].call = NoTabCall,
                            ![t].snap = Null]
    /\ hist' = IF hist.overlap
                  THEN [hist EXCEPT !.writers = Append(@, t),
                                    !.first = IF hist.writers = <<>>
                                                 THEN tabs[t].call ELSE @,
                                    !.write = [call |-> tabs[t].call,
                                               snap |-> tabs[t].snap]]
                  ELSE NoHist
    /\ PageUnchanged

\* saveCart of tab t goes on: updateCartBadge() reads the storage and sets
\* the badges of t's page
TabBadge(t) ==
    /\ tabs[t].pc = "saved"
    /\ tabs' = [tabRefresh(tabs, t, localStorage) EXCEPT ![t].pc = "idle"]
    /\ UNCHANGED hist
    /\ UNCHANGED localStorage
    /\ PageUnchanged

\* tab t is reloaded: DOMContentLoaded runs updateCartBadge()
TabReload(t) ==
    /\ tabs[t].pc = "idle"
    /\ tabs' = tabRefresh(tabs, t, localStorage)
    /\ UNCHANGED hist
    /\ UNCHANGED localStorage
    /\ PageUnchanged

NextTabs ==
    \/ \E t \in Tabs, c \in TabCalls : TabBegin(t, c)
    \/ \E t \in Tabs : TabDelegate(t)
    \/ \E t \in Tabs : TabReturn(t)
    \/ \E t \in Tabs : TabWrite(t)
    \/ \E t \in Tabs : TabBadge(t)
    \/ \E t \in Tabs : TabReload(t)

SpecTabs == InitTabs /\ [][NextTabs]_vars

(***************************************************************************)
(* Properties                                                              *)
(***************************************************************************)
\* what the storage holds, read back
cartNow == getCart(localStorage)
cartBefore == getCart(pre.ls)
wishlistNow == getWishlist(localStorage)
wishlistBefore == getWishlist(pre.ls)
\* the wishlist before the first of the last two toggleWishlist calls
wishlistBeforePair == JSONparse(orEmptyArray(pair.before))

\* positions of the items of arr with identifier id
Positions(arr, id) == {i \in 1..Len(arr) : arr[i].id = id}
Has(arr, id) == Positions(arr, id) # {}

\* arr without its items of identifier id
Without(arr, id) == SelectSeq(arr, LAMBDA item : item.id # id)

RECURSIVE SumOver(_, _, _)
SumOver(arr, Term(_), n) ==
    IF n = 0 THEN 0 ELSE SumOver(arr, Term, n - 1) + Term(arr[n])

QtyOf(item) == item.qty
AmountOf(item) == item.price * item.qty
SumQty(arr) == SumOver(arr, QtyOf, Len(arr))
SumAmount(arr) == SumOver(arr, AmountOf, Len(arr))

----------------------------------------------------------------------------
\* C1: in every state reached by addToCart, removeFromCart and updateQty
\* calls from the empty store, the persisted cart holds at most one item per
\* product identifier.
C1_OneItemPerId ==
    \A i, j \in 1..Len(cartNow) : cartNow[i].id = cartNow[j].id => i = j

\* an addToCart on an identifier already in a cart of two items
C1_Witness ==
    /\ last.op = "addToCart"
    /\ Has(cartBefore, last.id)
    /\ Len(cartNow) = 2

\* C2: every item of the persisted cart has qty >= 1, whatever integer
\* quantities addToCart and updateQty were called with.
C2_QtyAtLeastOne ==
    \A i \in 1..Len(cartNow) : cartNow[i].qty >= 1

\* C3: addToCart(p, q) on a cart without p.id appends one item with that
\* identifier and qty q (1 when q is omitted) after the items that were
\* there, which are unchanged.
C3_AddNewAppends ==
    (last.op = "addToCart" /\ ~Has(cartBefore, last.id)) =>
        LET q == IF last.args = <<>> THEN 1 ELSE last.args[1]
            n == Len(cartBefore)
        IN /\ Len(cartNow) = n + 1
           /\ SubSeq(cartNow, 1, n) = cartBefore
           /\ cartNow[n + 1].id = last.id
           /\ cartNow[n + 1].qty = q
           /\ Cardinality(Positions(cartNow, last.id)) = 1

\* addToCart(p) with the quantity omitted, on a cart holding another product
C3_Witness ==
    /\ last.op = "addToCart"
    /\ last.args = <<>>
    /\ ~Has(cartBefore, last.id)
    /\ Len(cartBefore) = 1
    /\ Len(cartNow) = 2

\* C4: addToCart(p, q) on a cart holding p.id with quantity n leaves exactly
\* one item with that identifier, of quantity n + q.
C4_AddExistingAccumulates ==
    (last.op = "addToCart" /\ Has(cartBefore, last.id)) =>
        LET q == IF last.args = <<>> THEN 1 ELSE last.args[1]
            i == CHOOSE k \in Positions(cartBefore, last.id) : TRUE
            n == cartBefore[i].qty
        IN /\ Cardinality(Positions(cartNow, last.id)) = 1
           /\ \A k \in Positions(cartNow, last.id) : cartNow[k].qty = n + q

\* add with qty 1, then add the same identifier with qty 2: qty 3
C4_Witness ==
    /\ last.op = "addToCart"
    /\ last.args = <<2>>
    /\ \E i \in Positions(cartBefore, last.id) : cartBefore[i].qty = 1
    /\ \E k \in Positions(cartNow, last.id) : cartNow[k].qty = 3

\* C5: updateQty(id, nextQty) with nextQty <= 0 on a cart holding id leaves
\* no item with identifier id and every other item as it was.
C5_UpdateToZeroRemoves ==
    (/\ last.op = "updateQty"
     /\ Has(cartBefore, last.id)
     /\ last.args[1] <= 0) =>
        /\ ~Has(cartNow, last.id)
        /\ cartNow = Without(cartBefore, last.id)

\* updateQty(id, 0) on a cart of two items
C5_Witness ==
    /\ last.op = "updateQty"
    /\ last.args = <<0>>
    /\ Has(cartBefore, last.id)
    /\ Len(cartBefore) = 2
    /\ Len(cartNow) = 1

\* C6: updateQty(id, nextQty) on a cart without id changes nothing, whatever
\* nextQty is: storage (cart and wishlist) and badges stay as they were.
C6_UpdateAbsentIsNoop ==
    (last.op = "updateQty" /\ ~Has(cartBefore, last.id)) =>
        /\ localStorage = pre.ls
        /\ badges = pre.badges

\* updateQty with a positive quantity for an identifier that is not in a
\* non-empty cart, while the wishlist is not empty
C6_Witness ==
    /\ last.op = "updateQty"
    /\ last.args[1] > 0
    /\ ~Has(cartBefore, last.id)
    /\ cartBefore # <<>>
    /\ wishlistNow # <<>>

\* C7: cartTotalQty() is the sum of the qty of the items of the persisted
\* cart, and 0 when the cart is empty or its key is absent.
C7_TotalQtyIsSum ==
    /\ cartTotalQty(localStorage) = SumQty(cartNow)
    /\ (getItem(localStorage, CART_KEY) = Null \/ cartNow = <<>>) =>
           cartTotalQty(localStorage) = 0
    /\ last.op = "cartTotalQty" => last.ret = SumQty(cartNow)

\* cartTotalQty() returned 5 on a cart of two items
C7_Witness ==
    /\ last.op = "cartTotalQty"
    /\ Len(cartNow) = 2
    /\ last.ret = 5

\* C8: cartTotalPrice() is the sum of price * qty over the items of the
\* persisted cart, and 0 for an empty cart.
C8_TotalPriceIsSum ==
    /\ cartTotalPrice(localStorage) = SumAmount(cartNow)
    /\ cartNow = <<>> => cartTotalPrice(localStorage) = 0
    /\ last.op = "cartTotalPrice" => last.ret = SumAmount(cartNow)

\* price 10 with qty 2 and price 5 with qty 3: cartTotalPrice() returned 35
C8_Witness ==
    /\ last.op = "cartTotalPrice"
    /\ Len(cartNow) = 2
    /\ \E i, j \in 1..2 :
          /\ cartNow[i].price = 10 /\ cartNow[i].qty = 2
          /\ cartNow[j].price = 5 /\ cartNow[j].qty = 3
    /\ last.ret = 35

\* C9: toggleWishlist(p); toggleWishlist(p) on a wishlist without p returns
\* true, then false, and leaves the wishlist as it was before the first call,
\* without p.
C9_ToggleTwiceRestores ==
    (/\ pair.valid
     /\ last.op = "toggleWishlist"
     /\ pair.first.id = last.id
     /\ ~Has(wishlistBeforePair, last.id)) =>
        /\ pair.first.retb
        /\ ~last.retb
        /\ ~Has(wishlistNow, last.id)
        /\ wishlistNow = wishlistBeforePair

\* two toggles of the same product on a wishlist that held another product
C9_Witness ==
    /\ pair.valid
    /\ last.op = "toggleWishlist"
    /\ pair.first.id = last.id
    /\ ~Has(wishlistBeforePair, last.id)
    /\ wishlistBeforePair # <<>>

\* C10: after any sequence of toggleWishlist calls from the empty wishlist,
\* isWishlist(id) is true exactly when id was toggled an odd number of times,
\* which is exactly when the persisted wishlist has an entry with id.
C10_IsWishlistIsParity ==
    /\ \A id \in WishIds :
          /\ isWishlist(localStorage, id) = (toggled[id] = 1)
          /\ isWishlist(localStorage, id) = Has(wishlistNow, id)
    /\ last.op = "isWishlist" => last.retb = (toggled[last.id] = 1)

\* isWishlist(id) returned true while another product, toggled an even
\* number of times, is out of the wishlist
C10_Witness ==
    /\ last.op = "isWishlist"
    /\ last.retb
    /\ Len(wishlistNow) = 1
    /\ \E j \in WishIds : toggled[j] = 0

\* C11: the value toggleWishlist(p) returns is the value of isWishlist(p.id)
\* right after the call: true when p was just added, false when it was just
\* removed.
C11_ToggleReturnsMembership ==
    last.op = "toggleWishlist" =>
        /\ last.retb = isWishlist(localStorage, last.id)
        /\ last.retb = ~Has(wishlistBefore, last.id)
        /\ last.retb = Has(wishlistNow, last.id)

\* a toggleWishlist that removed its product and returned false
C11_Witness ==
    /\ last.op = "toggleWishlist"
    /\ ~last.retb
    /\ Has(wishlistBefore, last.id)
    /\ Len(wishlistBefore) = 2

\* C12: in every state reached by toggleWishlist calls from the empty store,
\* the persisted wishlist holds at most one product per identifier.
C12_OneWishPerId ==
    \A i, j \in 1..Len(wishlistNow) :
        wishlistNow[i].id = wishlistNow[j].id => i = j

\* a wishlist of two products after a product was toggled out and in again
C12_Witness ==
    /\ pair.valid
    /\ pair.first.id = last.id
    /\ last.retb
    /\ Len(wishlistNow) = 2

\* the number a decimal text stands for
DigitValue(c) ==
    CASE c = "0" -> 0 [] c = "1" -> 1 [] c = "2" -> 2 [] c = "3" -> 3
      [] c = "4" -> 4 [] c = "5" -> 5 [] c = "6" -> 6 [] c = "7" -> 7
      [] c = "8" -> 8 [] c = "9" -> 9

RECURSIVE DigitsToNumber(_, _)
DigitsToNumber(text, acc) ==
    IF text = <<>> THEN acc
    ELSE DigitsToNumber(Tail(text), 10 * acc + DigitValue(Head(text)))

TextToNumber(text) ==
    IF Head(text) = "-" THEN 0 - DigitsToNumber(Tail(text), 0)
    ELSE DigitsToNumber(text, 0)

\* C13: in one page, once the page-load refresh has run, after every call
\* each badge shows the total quantity of the persisted cart and is hidden
\* exactly when that total is 0.
C13_BadgeShowsTotal ==
    loaded =>
        \A b \in DOMAIN badges :
            /\ badges[b].textContent # <<>>
            /\ TextToNumber(badges[b].textContent) = SumQty(cartNow)
            /\ badges[b].dNone = (SumQty(cartNow) = 0)

\* after the page load, an addToCart brought the total to 4 and the badge
\* shows it
C13_Witness ==
    /\ loaded
    /\ last.op = "addToCart"
    /\ SumQty(cartNow) = 4
    /\ wishlistNow # <<>>
    /\ \A b \in DOMAIN badges : ~badges[b].dNone

\* the position of the item of arr with identifier id
PositionOf(arr, id) == CHOOSE i \in Positions(arr, id) : TRUE

CartCalls == {"addToCart", "removeFromCart", "updateQty"}

C17_UpdateSetsQty ==
    (/\ last.op = "updateQty"
     /\ Has(cartBefore, last.id)
     /\ last.args[1] > 0) =>
        /\ Len(cartNow) = Len(cartBefore)
        /\ \A i \in 1..Len(cartBefore) :
              IF cartBefore[i].id = last.id
                 THEN cartNow[i] = [cartBefore[i] EXCEPT !.qty = last.args[1]]
                 ELSE cartNow[i] = cartBefore[i]
        /\ getItem(localStorage, WISHLIST_KEY) = getItem(pre.ls, WISHLIST_KEY)

\* updateQty(id, 1) on an item of quantity 3, next to another item and with
\* a product in the wishlist
C17_Witness ==
    /\ last.op = "updateQty"
    /\ last.args = <<1>>
    /\ Len(cartBefore) = 2
    /\ \E i \in 1..2 : cartBefore[i].id = last.id /\ cartBefore[i].qty = 3
    /\ \E i \in 1..2 : cartNow[i].id = last.id /\ cartNow[i].qty = 1
    /\ wishlistNow # <<>>

\* C18: removeFromCart(id) removes the item with identifier id and nothing
\* else; without such an item the cart is unchanged; a second
\* removeFromCart(id) changes nothing more.
C18_RemoveOnlyThatItem ==
    last.op = "removeFromCart" =>
        /\ ~Has(cartNow, last.id)
        /\ cartNow = Without(cartBefore, last.id)
        /\ ~Has(cartBefore, last.id) => cartNow = cartBefore
        /\ getCart(removeFromCart(localStorage, badges, last.id).ls) = cartNow

\* removeFromCart of one of two items
C18_Witness ==
    /\ last.op = "removeFromCart"
    /\ Len(cartBefore) = 2
    /\ Has(cartBefore, last.id)
    /\ Len(cartNow) = 1

\* C19: addToCart, removeFromCart and updateQty never change the persisted
\* wishlist; toggleWishlist never changes the persisted cart or the badge.
C19_CollectionsIndependent ==
    /\ last.op \in CartCalls =>
          getItem(localStorage, WISHLIST_KEY) = getItem(pre.ls, WISHLIST_KEY)
    /\ last.op = "toggleWishlist" =>
          /\ getItem(localStorage, CART_KEY) = getItem(pre.ls, CART_KEY)
          /\ badges = pre.badges

\* a toggleWishlist on a page whose cart and wishlist both hold something
C19_Witness ==
    /\ last.op = "toggleWishlist"
    /\ cartNow # <<>>
    /\ wishlistBefore # <<>>
    /\ wishlistNow # wishlistBefore

\* the calls that read the cart first
CartReaders == CartCalls \cup {"cartTotalQty", "cartTotalPrice"}

\* C16: while the cart key holds malformed text, every call of addToCart,
\* removeFromCart, updateQty, cartTotalQty and cartTotalPrice ends with the
\* uncaught error of the read and leaves storage and badges as they were.
C16_MalformedCartThrows ==
    (/\ last.op \in CartReaders
     /\ getItem(pre.ls, CART_KEY) = Str(Malformed)) =>
        /\ last.thrown
        /\ localStorage = pre.ls
        /\ badges = pre.badges

\* removeFromCart threw on the malformed cart while the wishlist holds a
\* product
C16_Witness ==
    /\ last.op = "removeFromCart"
    /\ last.thrown
    /\ getItem(localStorage, CART_KEY) = Str(Malformed)
    /\ wishlistNow # <<>>

\* the cart the last overlapping writer computes alone from what it read
AloneResult ==
    tabCompute(withCart(localStorage, hist.write.snap), <<>>, hist.write.call)

\* C14: when the calls of the two tabs overlap, both having read the cart
\* before either writes, the persisted cart after both wrote is the cart the
\* last writer computed from what it read: the first writer's change is lost.
C14_LastWriteWins ==
    (hist.overlap /\ Len(hist.writers) = 2) =>
        /\ hist.writers[1] # hist.writers[2]
        /\ getItem(localStorage, CART_KEY) = getItem(AloneResult.ls, CART_KEY)

\* both tabs called addToCart(p) on the empty store and both are done: the
\* cart holds p with quantity 1
C14_Witness ==
    /\ hist.overlap
    /\ Len(hist.writers) = 2
    /\ hist.first.op = "addToCart"
    /\ hist.write.call = hist.first
    /\ hist.write.snap = Null
    /\ \A t \in Tabs : tabs[t].pc = "idle"
    /\ Len(cartNow) = 1
    /\ cartNow[1].qty = 1

\* some badge of tab u, as ts has it, does not show the total of storage ls
StaleIn(ts, ls, u) ==
    \E b \in DOMAIN ts[u].badges :
        \/ TextToNumber(ts[u].badges[b].textContent) # SumQty(getCart(ls))
        \/ ts[u].badges[b].dNone # (SumQty(getCart(ls)) = 0)

\* the step is tab u ending its own cart save with the badge refresh, or
\* the reload of tab u: nothing else moves
OwnRefresh(u) ==
    /\ tabs[u].pc \in {"saved", "idle"}
    /\ tabs'[u].pc = "idle"
    /\ \A v \in Tabs \ {u} : tabs'[v] = tabs[v]
    /\ localStorage' = localStorage

\* C20 as stated: the badge of an idle tab that differs from the total of
\* the persisted cart stays different as long as that tab does nothing (no
\* cart save, no reload).
C20_StaysDifferent ==
    [][\A u \in Tabs :
          (/\ tabs[u].pc = "idle"
           /\ StaleIn(tabs, localStorage, u)
           /\ tabs'[u] = tabs[u]) =>
              StaleIn(tabs', localStorage', u)]_vars

\* C20, amended: the badges of a tab keep their text and visibility until
\* that tab itself ends a cart save or reloads; no step of the other tab
\* changes them.
C20_BadgeOnlyOwnRefresh ==
    [][\A u \in Tabs :
          tabs'[u].badges # tabs[u].badges => OwnRefresh(u)]_vars

\* tab A completed a cart mutation and shows the total; the badge of tab B,
\* idle, does not
C20_Witness ==
    /\ \A t \in Tabs : tabs[t].pc = "idle"
    /\ cartNow # <<>>
    /\ ~StaleIn(tabs, localStorage, "A")
    /\ StaleIn(tabs, localStorage, "B")

====
